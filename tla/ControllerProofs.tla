-------------------------- MODULE ControllerProofs --------------------------
(***************************************************************************)
(* The lock and the package store are correct for every number of callers, *)
(* processes, names, releases and files.  The argument is in two parts:    *)
(* whoever is inside Acquire has the flock, hence is alone; and what the   *)
(* one running command has recorded of the store is on disk, or is the     *)
(* file it is about to rename.                                             *)
(***************************************************************************)
EXTENDS Controller, TLAPS

USE LockAssumption, StoreAssumption, OneLock
    DEF LockAssumption, StoreAssumption, OneLock

(***************************************************************************)
(* The lock.                                                               *)
(***************************************************************************)

\* The kernel's lock and the callers agree.
FlockHeld ==
    /\ \A c \in Caller : at[c] = "in" => flock[FileOf[name[c]]] = c
    /\ \A f \in LockFile : flock[f] # Nobody =>
            at[flock[f]] = "in" /\ FileOf[name[flock[f]]] = f

LockInv == LockTypeOK /\ FlockHeld /\ NoStaleEntry

LockStep ==
    \/ \E c \in Caller, n \in LockName : Enter(c, n)
    \/ \E c \in Caller : Lock(c) \/ GiveUp(c) \/ Unlock(c) \/ Leave(c)
    \/ \E P \in SUBSET Process : Die(P)
    \/ UNCHANGED lockVars

LEMMA LockInitially == LockInit => LockInv
  BY DEF LockInit, LockInv, LockTypeOK, FlockHeld, NoStaleEntry

LEMMA LockKept == LockInv /\ LockStep => LockInv'
  <1> SUFFICES ASSUME LockInv, LockStep PROVE LockInv'
    OBVIOUS
  <1> USE DEF LockInv, LockTypeOK, FlockHeld, NoStaleEntry, Entry
  <1>1. ASSUME NEW c \in Caller, NEW n \in LockName, Enter(c, n) PROVE LockInv'
    BY <1>1 DEF Enter
  <1>2. ASSUME NEW c \in Caller, Lock(c) PROVE LockInv'
    BY <1>2 DEF Lock, Unlocked
  <1>3. ASSUME NEW c \in Caller, GiveUp(c) PROVE LockInv'
    BY <1>3 DEF GiveUp, DropEntry, Out
  <1>4. ASSUME NEW c \in Caller, Unlock(c) PROVE LockInv'
    BY <1>4 DEF Unlock, Free
  <1>5. ASSUME NEW c \in Caller, Leave(c) PROVE LockInv'
    BY <1>5 DEF Leave, Out
  <1>6. ASSUME NEW P \in SUBSET Process, Die(P) PROVE LockInv'
    BY <1>6 DEF Die
  <1>7. CASE UNCHANGED lockVars
    BY <1>7 DEF lockVars
  <1> QED
    BY <1>1, <1>2, <1>3, <1>4, <1>5, <1>6, <1>7 DEF LockStep

LEMMA Alone ==
    ASSUME LockInv, NEW c \in Caller, NEW d \in Caller, at[c] = "in", at[d] = "in"
    PROVE  c = d
  BY DEF LockInv, LockTypeOK, FlockHeld

(***************************************************************************)
(* The store.                                                              *)
(***************************************************************************)

\* What a sync has recorded is on disk, or is the file it renames next, whose
\* place is still free.
Recorded(c) ==
    /\ \A f \in DOMAIN cmd[c].files :
          \/ disk[cmd[c].release][f] = cmd[c].files[f]
          \/ cmd[c].file = f /\ tmp[cmd[c].release][f] = cmd[c].files[f]
    /\ cmd[c].file # None => disk[cmd[c].release][cmd[c].file] = None

\* The file about to be uploaded was verified; without a power loss all of
\* them would have been.
Staged(c) ==
    /\ cmd[c].file # None =>
          disk[cmd[c].release][cmd[c].file] = cmd[c].files[cmd[c].file]
    /\ ~lostPower => \A f \in DOMAIN cmd[c].files :
          disk[cmd[c].release][f] = cmd[c].files[f]

\* Only a caller that has the lock is at work.
CmdInv ==
    \A c \in Caller :
        /\ at[c] # "in" => cmd[c] = Ready
        /\ cmd[c].step \in {"get", "unpack"} => Recorded(c)
        /\ cmd[c].step = "stage" => Staged(c)

Inv == LockInv /\ StoreTypeOK /\ CmdInv /\ ManifestWhole

LEMMA ReadyType ==
    /\ Ready.step = "ready" /\ Ready.release = None /\ Ready.todo = {}
    /\ Ready.file = None /\ Ready.files \in Manifest /\ Ready.archs = {}
    /\ Ready.listed = FALSE
  <1>1. NoFiles \in Manifest
    <2>1. NoFiles \in [{} -> Content]
      BY DEF NoFiles
    <2> QED
      BY <2>1 DEF Manifest
  <1> QED
    BY <1>1 DEF Ready

LEMMA Initially == ControllerInit => Inv
  <1> SUFFICES ASSUME ControllerInit PROVE Inv
    OBVIOUS
  <1>1. LockInv
    BY LockInitially DEF ControllerInit
  <1>2. Ready \in Command
    BY ReadyType DEF Ready, Command
  <1>3. StoreTypeOK
    BY <1>2, ReadyType DEF ControllerInit, StoreInit, StoreTypeOK
  <1>4. CmdInv /\ ManifestWhole
    BY ReadyType DEF ControllerInit, StoreInit, CmdInv, ManifestWhole
  <1> QED
    BY <1>1, <1>3, <1>4 DEF Inv

\* A manifest with one more file is a manifest.
LEMMA WithType ==
    ASSUME NEW F \in Manifest, NEW f \in File, NEW x \in Content
    PROVE  /\ With(F, f, x) \in Manifest
           /\ DOMAIN With(F, f, x) = DOMAIN F \cup {f}
           /\ \A g \in DOMAIN F \cup {f} : With(F, f, x)[g] = IF g = f THEN x ELSE F[g]
  <1>1. PICK D \in SUBSET File : F \in [D -> Content]
    BY DEF Manifest
  <1>2. With(F, f, x) \in [D \cup {f} -> Content]
    BY <1>1 DEF With
  <1>3. D \cup {f} \in SUBSET File
    BY <1>1
  <1> QED
    BY <1>1, <1>2, <1>3 DEF Manifest, With

LEMMA ManifestFiles ==
    ASSUME NEW F \in Manifest
    PROVE  /\ DOMAIN F \subseteq File
           /\ \A f \in DOMAIN F : F[f] \in Content
           /\ F # None /\ F # Torn
  BY DEF Manifest

\* One file of one release is written.
LEMMA Written ==
    ASSUME NEW S, NEW m \in [Release -> [File -> S]],
           NEW v \in Release, NEW f \in File, NEW x \in S
    PROVE  LET w == [m EXCEPT ![v][f] = x] IN
           /\ w \in [Release -> [File -> S]]
           /\ w[v][f] = x
           /\ \A u \in Release, g \in File : u # v \/ g # f => w[u][g] = m[u][g]
  OBVIOUS

\* The steps that write one package file, or none, on behalf of one caller.
LEMMA StoreKept ==
    ASSUME Inv, NEW c \in Caller, NEW f \in File, NEW x \in Content,
           Between(c, "get") \/ Between(c, "unpack"), Store(c, f, x),
           UNCHANGED lockVars
    PROVE  Inv'
  <1> USE DEF Inv
  <1>1. LockInv'
    BY LockKept DEF LockStep
  <1>2. cmd[c].release \in Release /\ cmd[c].files \in Manifest /\ cmd[c].file = None
    BY DEF Between, Doing, StoreTypeOK, Command
  <1>3. /\ With(cmd[c].files, f, x) \in Manifest
        /\ DOMAIN With(cmd[c].files, f, x) = DOMAIN cmd[c].files \cup {f}
        /\ \A g \in DOMAIN cmd[c].files \cup {f} :
              With(cmd[c].files, f, x)[g] = IF g = f THEN x ELSE cmd[c].files[g]
    <2> DEFINE F == cmd[c].files
    <2>1. F \in Manifest
      BY <1>2
    <2> HIDE DEF F
    <2>2. With(F, f, x) \in Manifest
      BY <2>1, WithType
    <2>3. DOMAIN With(F, f, x) = DOMAIN F \cup {f}
      BY <2>1, WithType
    <2>4. \A g \in DOMAIN F \cup {f} : With(F, f, x)[g] = IF g = f THEN x ELSE F[g]
      BY DEF With
    <2> QED
      BY <2>2, <2>3, <2>4 DEF F
  <1>4. /\ cmd' \in [Caller -> Command]
        /\ cmd'[c].files = With(cmd[c].files, f, x)
        /\ cmd'[c].file = IF disk[cmd[c].release][f] = x THEN None ELSE f
        /\ cmd'[c].release = cmd[c].release /\ cmd'[c].step = cmd[c].step
        /\ \A d \in Caller : d # c => cmd'[d] = cmd[d]
    <2> DEFINE r == [cmd[c] EXCEPT
                       !.todo = @ \ {f}, !.files = With(@, f, x),
                       !.file = IF StoredAlready(cmd[c].release, f, x) THEN None ELSE f]
    <2>1. cmd' = [cmd EXCEPT ![c] = r] /\ cmd \in [Caller -> Command] /\ cmd[c] \in Command
      BY DEF Store, StoreTypeOK
    <2>2. /\ r \in Command /\ r.files = With(cmd[c].files, f, x)
          /\ r.file = IF disk[cmd[c].release][f] = x THEN None ELSE f
          /\ r.release = cmd[c].release /\ r.step = cmd[c].step
      BY <1>3, <2>1 DEF Command, StoredAlready
    <2> HIDE DEF r
    <2> QED
      BY <2>1, <2>2
  <1>5. \/ disk[cmd[c].release][f] = x /\ tmp' = tmp
        \/ /\ disk[cmd[c].release][f] = None
           /\ tmp' \in [Release -> [File -> Content \cup {None}]]
           /\ tmp'[cmd[c].release][f] = x
    <2>1. CASE StoredAlready(cmd[c].release, f, x) /\ UNCHANGED tmp
      BY <2>1 DEF StoredAlready
    <2>2. CASE /\ MayWrite(cmd[c].release, f, x)
               /\ tmp' = [tmp EXCEPT ![cmd[c].release][f] = x]
      <3>1. tmp \in [Release -> [File -> Content \cup {None}]]
        BY DEF StoreTypeOK
      <3> QED
        BY <1>2, <2>2, <3>1, Written DEF MayWrite
    <2> QED
      BY <2>1, <2>2 DEF Store
  <1>9. StoreTypeOK'
    <2>1. \A d \in Caller : cmd'[d].step \in {"get", "unpack", "stage"} => cmd'[d].release # None
      BY <1>4 DEF StoreTypeOK
    <2> QED
      BY <1>4, <1>5, <2>1 DEF Store, StoreTypeOK
  <1>6. Recorded(c)'
    <2>1. Recorded(c)
      BY DEF CmdInv, Between, Doing
    <2>2. ASSUME NEW g \in DOMAIN cmd'[c].files
          PROVE  \/ disk'[cmd'[c].release][g] = cmd'[c].files[g]
                 \/ cmd'[c].file = g /\ tmp'[cmd'[c].release][g] = cmd'[c].files[g]
      <3>1. CASE g = f
        <4>1. cmd'[c].files[f] = x
          BY <1>3, <1>4
        <4> QED
          BY <1>4, <1>5, <3>1, <4>1 DEF Store
      <3>2. CASE g # f
        <4>1. g \in DOMAIN cmd[c].files /\ cmd'[c].files[g] = cmd[c].files[g]
          BY <1>3, <1>4, <2>2, <3>2
        <4>3. g # None
          BY <1>2, <4>1, ManifestFiles
        <4> QED
          BY <1>2, <1>4, <2>1, <4>1, <4>3 DEF Recorded, Store
      <3> QED
        BY <3>1, <3>2
    <2>3. cmd'[c].file # None => disk'[cmd'[c].release][cmd'[c].file] = None
      BY <1>4 DEF Store, StoredAlready, MayWrite
    <2> QED
      BY <2>2, <2>3 DEF Recorded
  <1>7. ASSUME NEW d \in Caller, d # c PROVE at[d] # "in" /\ cmd[d] = Ready /\ cmd'[d] = Ready
    BY <1>4, <1>7, Alone DEF CmdInv, Between, Doing
  <1>8. CmdInv'
    BY <1>4, <1>6, <1>7, ReadyType DEF CmdInv, lockVars, Between, Doing
  <1>10. ManifestWhole'
    BY DEF Store, ManifestWhole
  <1> QED
    BY <1>1, <1>9, <1>8, <1>10

\* The steps of one caller that leave disk and tmp alone.
LEMMA QuietKept ==
    ASSUME Inv, NEW c \in Caller, UNCHANGED <<disk, tmp, lostPower>>,
           StoreTypeOK', LockStep,
           \A d \in Caller : at'[d] # at[d] => d = c,
           \A d \in Caller : cmd'[d] # cmd[d] => d = c,
           at'[c] # "in" => cmd'[c] = Ready,
           cmd'[c].step \in {"get", "unpack"} => Recorded(c)',
           cmd'[c].step = "stage" => Staged(c)',
           ManifestWhole'
    PROVE  Inv'
  <1>1. LockInv'
    BY LockKept DEF Inv
  <1>2. ASSUME NEW d \in Caller, d # c
        PROVE  /\ at'[d] # "in" => cmd'[d] = Ready
               /\ cmd'[d].step \in {"get", "unpack"} => Recorded(d)'
               /\ cmd'[d].step = "stage" => Staged(d)'
    <2>1. at'[d] = at[d] /\ cmd'[d] = cmd[d]
      BY <1>2
    <2> QED
      BY <2>1 DEF Inv, CmdInv, Recorded, Staged
  <1>3. CmdInv'
    BY <1>2 DEF CmdInv
  <1> QED
    BY <1>1, <1>3 DEF Inv

\* The type of a command, field by field.
LEMMA CmdType ==
    ASSUME Inv, NEW c \in Caller
    PROVE  /\ cmd \in [Caller -> Command]
           /\ cmd[c] \in Command
           /\ cmd[c].step \in {"ready", "get", "unpack", "stage", "over", "hung"}
           /\ cmd[c].release \in Release \cup {None} /\ cmd[c].listed \in BOOLEAN
           /\ cmd[c].todo \in SUBSET File /\ cmd[c].file \in File \cup {None}
           /\ cmd[c].files \in Manifest /\ cmd[c].archs \in SUBSET Arch
           /\ cmd[c].step \in {"get", "unpack", "stage"} => cmd[c].release \in Release
  <1>1. cmd \in [Caller -> Command] /\ cmd[c] \in Command
    BY DEF Inv, StoreTypeOK
  <1>2. cmd[c].step \in {"get", "unpack", "stage"} => cmd[c].release # None
    BY DEF Inv, StoreTypeOK
  <1> QED
    BY <1>1, <1>2 DEF Command

\* A command that goes from one record to another leaves the rest of the types
\* alone.
LEMMA StepType ==
    ASSUME Inv, NEW c \in Caller, NEW r \in Command, cmd' = [cmd EXCEPT ![c] = r],
           r.step \in {"get", "unpack", "stage"} => r.release # None,
           UNCHANGED <<disk, tmp, lostPower>>,
           manifest' \in [Release -> Manifest \cup {None, Torn}]
    PROVE  /\ StoreTypeOK'
           /\ cmd'[c] = r
           /\ \A d \in Caller : cmd'[d] # cmd[d] => d = c
  <1>1. cmd' \in [Caller -> Command] /\ cmd'[c] = r
        /\ \A d \in Caller : d # c => cmd'[d] = cmd[d]
    BY DEF Inv, StoreTypeOK
  <1>2. \A d \in Caller : cmd'[d].step \in {"get", "unpack", "stage"} => cmd'[d].release # None
    BY <1>1 DEF Inv, StoreTypeOK
  <1> QED
    BY <1>1, <1>2 DEF Inv, StoreTypeOK

\* A step of the one command that has the lock, which writes no file.
LEMMA WorkKept ==
    ASSUME Inv, NEW c \in Caller, NEW r \in Command, cmd' = [cmd EXCEPT ![c] = r],
           UNCHANGED <<disk, tmp, lostPower, lockVars>>, at[c] = "in",
           r.step \in {"get", "unpack", "stage"} => r.release # None,
           manifest' \in [Release -> Manifest \cup {None, Torn}],
           r.step \in {"get", "unpack"} => Recorded(c)',
           r.step = "stage" => Staged(c)',
           ManifestWhole'
    PROVE  Inv'
  <1>1. StoreTypeOK' /\ cmd'[c] = r /\ \A d \in Caller : cmd'[d] # cmd[d] => d = c
    BY StepType
  <1>2. at' = at /\ LockStep
    BY DEF lockVars, LockStep
  <1> QED
    BY <1>1, <1>2, QuietKept

LEMMA ManifestSame ==
    ASSUME Inv, UNCHANGED <<disk, manifest, lostPower>>
    PROVE  ManifestWhole' /\ manifest' \in [Release -> Manifest \cup {None, Torn}]
  BY DEF Inv, ManifestWhole, StoreTypeOK

\* The steps of a sync that write no file keep what is recorded.
LEMMA SyncQuiet ==
    ASSUME Inv, NEW c \in Caller, UNCHANGED lockVars,
           StartSync(c) \/ Downloaded(c) \/ PublishManifest(c)
           \/ (\E f \in File : Skip(c, f))
           \/ (\E a \in Arch : GetArchive(c, a))
    PROVE  Inv'
  <1>1. CASE StartSync(c)
    <2>1. PICK v \in Release, F \in SUBSET File, listed \in BOOLEAN :
             cmd' = [cmd EXCEPT ![c] = [Ready EXCEPT
                        !.step = "get", !.release = v, !.listed = listed,
                        !.todo = F, !.archs = Arch]]
      BY <1>1 DEF StartSync
    <2> DEFINE r == [Ready EXCEPT !.step = "get", !.release = v, !.listed = listed,
                                  !.todo = F, !.archs = Arch]
    <2>2. /\ r \in Command /\ r.step = "get" /\ r.release = v
          /\ r.files = NoFiles /\ r.file = None
      BY ReadyType DEF Ready, Command
    <2>3. cmd' = [cmd EXCEPT ![c] = r]
      BY <2>1
    <2> HIDE DEF r
    <2>4. cmd'[c] = r
      BY <2>3, CmdType
    <2>5. Recorded(c)'
      BY <2>2, <2>4 DEF Recorded, NoFiles
    <2>6. at[c] = "in" /\ UNCHANGED <<disk, tmp, manifest, lostPower>>
      BY <1>1 DEF StartSync, Between, Doing
    <2> QED
      BY <2>2, <2>3, <2>5, <2>6, ManifestSame, WorkKept
  <1>2. CASE Downloaded(c)
    <2> DEFINE r == [cmd[c] EXCEPT !.step = "unpack"]
    <2>1. cmd' = [cmd EXCEPT ![c] = r] /\ at[c] = "in" /\ cmd[c].step = "get"
          /\ UNCHANGED <<disk, tmp, manifest, lostPower>>
      BY <1>2, CmdType DEF Downloaded, Between, Doing
    <2>2. /\ r \in Command /\ r.step = "unpack" /\ r.release = cmd[c].release
          /\ r.files = cmd[c].files /\ r.file = cmd[c].file
      BY CmdType DEF Command
    <2> HIDE DEF r
    <2>3. Recorded(c) /\ cmd[c].release # None
      BY <2>1, CmdType DEF Inv, CmdInv
    <2>4. cmd'[c] = r
      BY <2>1, CmdType
    <2>5. Recorded(c)'
      BY <2>1, <2>2, <2>3, <2>4 DEF Recorded
    <2> QED
      BY <2>1, <2>2, <2>3, <2>5, ManifestSame, WorkKept
  <1>3. CASE PublishManifest(c)
    <2> DEFINE r == [Ready EXCEPT !.step = "over"]
    <2>1. cmd' = [cmd EXCEPT ![c] = r] /\ at[c] = "in" /\ UNCHANGED <<disk, tmp, lostPower>>
          /\ cmd[c].step = "unpack" /\ cmd[c].file = None
          /\ manifest' = [manifest EXCEPT ![cmd[c].release] = cmd[c].files]
      BY <1>3 DEF PublishManifest, AllStored, Between, Doing
    <2>2. r \in Command /\ r.step = "over"
      BY ReadyType DEF Ready, Command
    <2>3. manifest' \in [Release -> Manifest \cup {None, Torn}]
      BY <2>1, CmdType DEF Inv, StoreTypeOK
    <2>4. ManifestWhole'
      <3>1. Recorded(c)
        BY <2>1 DEF Inv, CmdInv
      <3>2. \A f \in DOMAIN cmd[c].files : f # None
        BY CmdType, ManifestFiles
      <3>3. \A f \in DOMAIN cmd[c].files : disk[cmd[c].release][f] = cmd[c].files[f]
        BY <2>1, <3>1, <3>2 DEF Recorded
      <3>4. \A v \in Release : manifest'[v] = IF v = cmd[c].release THEN cmd[c].files ELSE manifest[v]
        BY <2>1 DEF Inv, StoreTypeOK
      <3> QED
        BY <2>1, <3>3, <3>4 DEF Inv, ManifestWhole
    <2> HIDE DEF r
    <2> QED
      BY <2>1, <2>2, <2>3, <2>4, WorkKept
  <1>4. CASE \E f \in File : Skip(c, f)
    <2>1. PICK f \in File : Skip(c, f)
      BY <1>4
    <2> DEFINE r == [cmd[c] EXCEPT !.todo = @ \ {f}]
    <2>2. cmd' = [cmd EXCEPT ![c] = r] /\ at[c] = "in" /\ cmd[c].step = "get"
          /\ UNCHANGED <<disk, tmp, manifest, lostPower>>
      BY <2>1, CmdType DEF Skip, Between, Doing
    <2>3. /\ r \in Command /\ r.step = "get" /\ r.release = cmd[c].release
          /\ r.files = cmd[c].files /\ r.file = cmd[c].file
      BY <2>2, CmdType DEF Command
    <2> HIDE DEF r
    <2>4. Recorded(c) /\ cmd[c].release # None
      BY <2>2, CmdType DEF Inv, CmdInv
    <2>5. cmd'[c] = r
      BY <2>2, CmdType
    <2>6. Recorded(c)'
      BY <2>2, <2>3, <2>4, <2>5 DEF Recorded
    <2> QED
      BY <2>2, <2>3, <2>4, <2>6, ManifestSame, WorkKept
  <1>5. CASE \E a \in Arch : GetArchive(c, a)
    <2>1. PICK a \in Arch, F \in SUBSET File : 
            cmd' = [cmd EXCEPT ![c] = [cmd[c] EXCEPT !.archs = @ \ {a}, !.todo = F]]
      BY <1>5 DEF GetArchive, FilesOf
    <2> DEFINE r == [cmd[c] EXCEPT !.archs = @ \ {a}, !.todo = F]
    <2>2. cmd' = [cmd EXCEPT ![c] = r] /\ at[c] = "in" /\ cmd[c].step = "unpack"
          /\ UNCHANGED <<disk, tmp, manifest, lostPower>>
      BY <1>5, <2>1 DEF GetArchive, Between, Doing
    <2>3. /\ r \in Command /\ r.step = "unpack" /\ r.release = cmd[c].release
          /\ r.files = cmd[c].files /\ r.file = cmd[c].file
      BY <2>2, CmdType DEF Command
    <2> HIDE DEF r
    <2>4. Recorded(c) /\ cmd[c].release # None
      BY <2>2, CmdType DEF Inv, CmdInv
    <2>5. cmd'[c] = r
      BY <2>2, CmdType
    <2>6. Recorded(c)'
      BY <2>2, <2>3, <2>4, <2>5 DEF Recorded
    <2> QED
      BY <2>2, <2>3, <2>4, <2>6, ManifestSame, WorkKept
  <1> QED
    BY <1>1, <1>2, <1>3, <1>4, <1>5

\* The file that is renamed had no place before, and what is recorded of it is
\* what it gets.
LEMMA RenameKept ==
    ASSUME Inv, NEW c \in Caller, Rename(c), UNCHANGED lockVars
    PROVE  Inv'
  <1> DEFINE v == cmd[c].release
             f == cmd[c].file
             r == [cmd[c] EXCEPT !.file = None]
  <1>1. /\ at[c] = "in" /\ cmd[c].step \in {"get", "unpack"}
        /\ v \in Release /\ f \in File /\ f # None
        /\ tmp[v][f] \in Content
    <2>1. at[c] = "in" /\ cmd[c].step \in {"get", "unpack"} /\ f # None /\ tmp[v][f] # None
      BY DEF Rename, Doing
    <2> QED
      BY <2>1, CmdType DEF Inv, StoreTypeOK
  <1>2. /\ disk' = [disk EXCEPT ![v][f] = tmp[v][f]]
        /\ tmp' = [tmp EXCEPT ![v][f] = None]
        /\ cmd' = [cmd EXCEPT ![c] = r]
        /\ UNCHANGED <<manifest, lostPower>>
    BY CmdType DEF Rename
  <1>3. /\ r \in Command /\ r.step = cmd[c].step /\ r.release = v
        /\ r.files = cmd[c].files /\ r.file = None
    BY CmdType DEF Command
  <1>4. /\ disk' \in [Release -> [File -> Content \cup {None, Torn}]]
        /\ disk'[v][f] = tmp[v][f]
        /\ \A u \in Release, g \in File : u # v \/ g # f => disk'[u][g] = disk[u][g]
    BY <1>1, <1>2, Written DEF Inv, StoreTypeOK
  <1>5. tmp' \in [Release -> [File -> Content \cup {None}]]
    BY <1>1, <1>2, Written DEF Inv, StoreTypeOK
  <1>6. /\ cmd' \in [Caller -> Command] /\ cmd'[c] = r
        /\ \A d \in Caller : d # c => cmd'[d] = cmd[d]
    BY <1>2, <1>3, CmdType
  <1> HIDE DEF r
  <1>7. StoreTypeOK'
    <2>1. \A d \in Caller : cmd'[d].step \in {"get", "unpack", "stage"} => cmd'[d].release # None
      BY <1>1, <1>3, <1>6 DEF Inv, StoreTypeOK
    <2> QED
      BY <1>2, <1>4, <1>5, <1>6, <2>1 DEF Inv, StoreTypeOK
  <1>8. Recorded(c) /\ disk[v][f] = None
    BY <1>1 DEF Inv, CmdInv, Recorded
  <1>9. Recorded(c)'
    <2>1. ASSUME NEW g \in DOMAIN cmd[c].files PROVE disk'[v][g] = cmd[c].files[g]
      <3>1. g \in File /\ cmd[c].files[g] \in Content
        BY CmdType, ManifestFiles
      <3>2. CASE g = f
        BY <1>4, <1>8, <3>1, <3>2 DEF Recorded
      <3>3. CASE g # f
        BY <1>1, <1>4, <1>8, <3>1, <3>3 DEF Recorded
      <3> QED
        BY <3>2, <3>3
    <2> QED
      BY <1>3, <1>6, <2>1 DEF Recorded
  <1>10. CmdInv'
    <2>1. ASSUME NEW d \in Caller, d # c PROVE at[d] # "in" /\ cmd'[d] = Ready
      BY <1>1, <1>6, <2>1, Alone DEF Inv, CmdInv
    <2> QED
      BY <1>1, <1>3, <1>6, <1>9, <2>1, ReadyType DEF CmdInv, lockVars
  <1>11. ManifestWhole'
    <2> SUFFICES ASSUME ~lostPower, NEW u \in Release, manifest[u] \in Manifest,
                        NEW g \in DOMAIN manifest[u]
                 PROVE  disk'[u][g] = manifest[u][g]
      BY <1>2 DEF ManifestWhole
    <2>1. disk[u][g] = manifest[u][g] /\ g \in File /\ manifest[u][g] \in Content
      BY ManifestFiles DEF Inv, ManifestWhole
    <2> QED
      BY <1>4, <1>8, <2>1
  <1> QED
    BY <1>7, <1>10, <1>11, LockKept DEF Inv, LockStep

LEMMA StagingKept ==
    ASSUME Inv, NEW c \in Caller, UNCHANGED lockVars,
           StartStaging(c) \/ Upload(c) \/ \E f \in File : Verify(c, f)
    PROVE  Inv'
  <1>1. CASE StartStaging(c)
    <2>1. PICK v \in Release, a \in Arch, P \in SUBSET Package :
             /\ manifest[v] \in Manifest
             /\ cmd' = [cmd EXCEPT ![c] = [Ready EXCEPT
                        !.step = "stage", !.release = v, !.files = manifest[v],
                        !.todo = FirstFiles(manifest[v], a, P)]]
      BY <1>1 DEF StartStaging
    <2> DEFINE T == FirstFiles(manifest[v], a, P)
               r == [Ready EXCEPT !.step = "stage", !.release = v,
                                  !.files = manifest[v], !.todo = T]
    <2>2. T \in SUBSET File
      BY <2>1, ManifestFiles DEF FirstFiles
    <2> HIDE DEF T
    <2>3. /\ r \in Command /\ r.step = "stage" /\ r.release = v
          /\ r.files = manifest[v] /\ r.file = None
      BY <2>1, <2>2, ReadyType DEF Ready, Command
    <2>4. cmd' = [cmd EXCEPT ![c] = r]
      BY <2>1 DEF T
    <2> HIDE DEF r
    <2>5. cmd'[c] = r
      BY <2>4, CmdType
    <2>6. at[c] = "in" /\ UNCHANGED <<disk, tmp, manifest, lostPower>>
      BY <1>1 DEF StartStaging, Between, Doing
    <2>7. Staged(c)'
      <3>1. ~lostPower => \A f \in DOMAIN manifest[v] : disk[v][f] = manifest[v][f]
        BY <2>1 DEF Inv, ManifestWhole
      <3> QED
        BY <2>3, <2>5, <2>6, <3>1 DEF Staged
    <2> QED
      BY <2>3, <2>4, <2>6, <2>7, ManifestSame, WorkKept
  <1>2. CASE Upload(c)
    <2> DEFINE r == [cmd[c] EXCEPT !.todo = @ \ {cmd[c].file}, !.file = None]
    <2>1. cmd' = [cmd EXCEPT ![c] = r] /\ at[c] = "in" /\ cmd[c].step = "stage"
          /\ UNCHANGED <<disk, tmp, manifest, lostPower>>
      BY <1>2, CmdType DEF Upload, Doing
    <2>2. /\ r \in Command /\ r.step = "stage" /\ r.release = cmd[c].release
          /\ r.files = cmd[c].files /\ r.file = None
      BY <2>1, CmdType DEF Command
    <2> HIDE DEF r
    <2>3. Staged(c) /\ cmd[c].release # None
      BY <2>1, CmdType DEF Inv, CmdInv
    <2>4. cmd'[c] = r
      BY <2>1, CmdType
    <2>5. Staged(c)'
      BY <2>1, <2>2, <2>3, <2>4 DEF Staged
    <2> QED
      BY <2>1, <2>2, <2>3, <2>5, ManifestSame, WorkKept
  <1>3. CASE \E f \in File : Verify(c, f)
    <2>1. PICK f \in File : Verify(c, f)
      BY <1>3
    <2> DEFINE r == [cmd[c] EXCEPT !.file = f]
    <2>2. cmd' = [cmd EXCEPT ![c] = r] /\ at[c] = "in" /\ cmd[c].step = "stage"
          /\ Intact(c, f) /\ UNCHANGED <<disk, tmp, manifest, lostPower>>
      BY <2>1, CmdType DEF Verify, Between, Doing
    <2>3. /\ r \in Command /\ r.step = "stage" /\ r.release = cmd[c].release
          /\ r.files = cmd[c].files /\ r.file = f
      BY <2>2, CmdType DEF Command
    <2> HIDE DEF r
    <2>4. Staged(c) /\ cmd[c].release # None
      BY <2>2, CmdType DEF Inv, CmdInv
    <2>5. cmd'[c] = r
      BY <2>2, CmdType
    <2>6. Staged(c)'
      BY <2>2, <2>3, <2>4, <2>5 DEF Staged, Intact
    <2> QED
      BY <2>2, <2>3, <2>4, <2>6, ManifestSame, WorkKept
  <1> QED
    BY <1>1, <1>2, <1>3

LEMMA UnpackKept ==
    ASSUME Inv, NEW c \in Caller, NEW f \in File, Unpack(c, f), UNCHANGED lockVars
    PROVE  Inv'
  <1>1. CASE Has(cmd[c].files, ArchOf[f], PackageOf[f])
    <2> DEFINE r == [cmd[c] EXCEPT !.todo = @ \ {f}]
    <2>2. cmd' = [cmd EXCEPT ![c] = r] /\ at[c] = "in" /\ cmd[c].step = "unpack"
          /\ UNCHANGED <<disk, tmp, manifest, lostPower>>
      BY <1>1, CmdType DEF Unpack, Between, Doing
    <2>3. /\ r \in Command /\ r.step = "unpack" /\ r.release = cmd[c].release
          /\ r.files = cmd[c].files /\ r.file = cmd[c].file
      BY <2>2, CmdType DEF Command
    <2> HIDE DEF r
    <2>4. Recorded(c) /\ cmd[c].release # None
      BY <2>2, CmdType DEF Inv, CmdInv
    <2>5. cmd'[c] = r
      BY <2>2, CmdType
    <2>6. Recorded(c)'
      BY <2>2, <2>3, <2>4, <2>5 DEF Recorded
    <2> QED
      BY <2>2, <2>3, <2>4, <2>6, ManifestSame, WorkKept
  <1>2. CASE ~Has(cmd[c].files, ArchOf[f], PackageOf[f])
    <2>1. \E x \in Content : Store(c, f, x)
      BY <1>2 DEF Unpack, Served
    <2>2. Between(c, "unpack")
      BY DEF Unpack
    <2> QED
      BY <2>1, <2>2, StoreKept
  <1> QED
    BY <1>1, <1>2

\* Giving up takes away the temporary file, never anything that is recorded.
LEMMA DiscardType ==
    ASSUME Inv, NEW C, Discard(C)
    PROVE  tmp' \in [Release -> [File -> Content \cup {None}]]
  BY DEF Inv, StoreTypeOK, Discard

LEMMA FailKept ==
    ASSUME Inv, NEW c \in Caller, Fail(c), UNCHANGED lockVars
    PROVE  Inv'
  <1> DEFINE r == [Ready EXCEPT !.step = "over"]
  <1>1. /\ at[c] = "in" /\ cmd' = [cmd EXCEPT ![c] = r] /\ Discard({c})
        /\ UNCHANGED <<disk, manifest, lostPower>>
    BY DEF Fail, Doing
  <1>2. r \in Command /\ r.step = "over"
    BY ReadyType DEF Ready, Command
  <1> HIDE DEF r
  <1>3. /\ cmd' \in [Caller -> Command] /\ cmd'[c] = r
        /\ \A d \in Caller : d # c => cmd'[d] = cmd[d] /\ cmd[d] = Ready /\ at[d] # "in"
    BY <1>1, <1>2, CmdType, Alone DEF Inv, CmdInv
  <1>4. StoreTypeOK'
    <2>1. \A d \in Caller : cmd'[d].step \in {"get", "unpack", "stage"} => cmd'[d].release # None
      BY <1>2, <1>3, ReadyType
    <2> QED
      BY <1>1, <1>3, <2>1, DiscardType DEF Inv, StoreTypeOK
  <1>5. CmdInv'
    BY <1>1, <1>2, <1>3, ReadyType DEF CmdInv, lockVars
  <1> QED
    BY <1>1, <1>4, <1>5, ManifestSame, LockKept DEF Inv, LockStep

\* A process that dies, or all of them, leaves the command of another alone.
LEMMA KilledKept ==
    ASSUME Inv, NEW P \in SUBSET Process, Killed(P)
    PROVE  /\ LockInv'
           /\ cmd' \in [Caller -> Command]
           /\ tmp' \in [Release -> [File -> Content \cup {None}]]
           /\ \A d \in Caller :
                 /\ cmd'[d] \in {cmd[d], Ready}
                 /\ at'[d] # "in" => cmd'[d] = Ready
                 /\ cmd'[d] # Ready => tmp' = tmp /\ ProcessOf[d] \notin P
  <1> DEFINE C == {c \in Caller : ProcessOf[c] \in P}
  <1>1. LockInv'
    BY LockKept DEF Inv, Killed, LockStep
  <1>2. tmp' \in [Release -> [File -> Content \cup {None}]] /\ Discard(C)
    BY DiscardType DEF Killed
  <1>3. Ready \in Command
    BY ReadyType DEF Ready, Command
  <1>4. cmd' = [c \in Caller |-> IF c \in C THEN Ready ELSE cmd[c]]
        /\ at' = [c \in Caller |-> IF ProcessOf[c] \in P THEN "out" ELSE at[c]]
    BY DEF Killed, Die
  <1>5. cmd' \in [Caller -> Command]
    BY <1>3, <1>4, CmdType
  <1>6. ASSUME NEW d \in Caller
        PROVE  cmd'[d] \in {cmd[d], Ready} /\ (at'[d] # "in" => cmd'[d] = Ready)
    BY <1>4 DEF Inv, CmdInv
  <1>7. ASSUME NEW d \in Caller, cmd'[d] # Ready
        PROVE  tmp' = tmp /\ ProcessOf[d] \notin P
    <2>1. d \notin C /\ cmd[d] # Ready /\ at[d] = "in"
      BY <1>4, <1>7 DEF Inv, CmdInv
    <2>2. \A c \in C : cmd[c] = Ready
      BY <2>1, Alone DEF Inv, CmdInv
    <2>3. \A c \in C : cmd[c].release = None
      BY <2>2, ReadyType
    <2>4. \A v \in Release, f \in File : tmp'[v][f] = tmp[v][f]
      BY <1>2, <2>3 DEF Discard
    <2>5. tmp \in [Release -> [File -> Content \cup {None}]]
      BY DEF Inv, StoreTypeOK
    <2>6. tmp' = tmp
      <3>1. \A v \in Release : tmp'[v] = tmp[v]
        BY <1>2, <2>4, <2>5
      <3> QED
        BY <1>2, <2>5, <3>1
    <2> QED
      BY <2>1, <2>6
  <1> QED
    BY <1>1, <1>2, <1>5, <1>6, <1>7

LEMMA KillKept ==
    ASSUME Inv, NEW p \in Process, Kill(p)
    PROVE  Inv'
  <1>1. Killed({p}) /\ {p} \in SUBSET Process /\ UNCHANGED <<disk, manifest, lostPower>>
    BY DEF Kill
  <1>2. /\ LockInv' /\ cmd' \in [Caller -> Command]
        /\ tmp' \in [Release -> [File -> Content \cup {None}]]
        /\ \A d \in Caller :
              /\ cmd'[d] \in {cmd[d], Ready}
              /\ at'[d] # "in" => cmd'[d] = Ready
              /\ cmd'[d] # Ready => tmp' = tmp
    BY <1>1, KilledKept
  <1>3. StoreTypeOK'
    <2>1. \A d \in Caller : cmd'[d].step \in {"get", "unpack", "stage"} => cmd'[d].release # None
      BY <1>2, ReadyType DEF Inv, StoreTypeOK
    <2> QED
      BY <1>1, <1>2, <2>1 DEF Inv, StoreTypeOK
  <1>4. CmdInv'
    <2>1. ASSUME NEW d \in Caller, cmd'[d].step \in {"get", "unpack", "stage"}
          PROVE  cmd'[d] = cmd[d] /\ tmp' = tmp
      BY <1>2, <2>1, ReadyType
    <2>2. ASSUME NEW d \in Caller, cmd'[d].step \in {"get", "unpack"} PROVE Recorded(d)'
      BY <1>1, <2>1, <2>2 DEF Inv, CmdInv, Recorded
    <2>3. ASSUME NEW d \in Caller, cmd'[d].step = "stage" PROVE Staged(d)'
      BY <1>1, <2>1, <2>3 DEF Inv, CmdInv, Staged
    <2> QED
      BY <1>2, <2>2, <2>3 DEF CmdInv
  <1> QED
    BY <1>1, <1>2, <1>3, <1>4, ManifestSame DEF Inv

\* After a power loss nobody is at work, and nothing is promised of the files.
LEMMA PowerLossKept ==
    ASSUME Inv, PowerLoss
    PROVE  Inv'
  <1>1. Killed(Process) /\ Process \in SUBSET Process /\ lostPower' = TRUE
    BY DEF PowerLoss
  <1>2. /\ LockInv' /\ cmd' \in [Caller -> Command]
        /\ tmp' \in [Release -> [File -> Content \cup {None}]]
        /\ \A d \in Caller : cmd'[d] = Ready
    <2>1. \A d \in Caller : ProcessOf[d] \in Process
      OBVIOUS
    <2> QED
      BY <1>1, <2>1, KilledKept
  <1>3. StoreTypeOK'
    <2>1. disk' \in [Release -> [File -> Content \cup {None, Torn}]]
      BY DEF PowerLoss
    <2>2. manifest' \in [Release -> Manifest \cup {None, Torn}]
      BY DEF PowerLoss
    <2> QED
      BY <1>1, <1>2, <2>1, <2>2, ReadyType DEF StoreTypeOK
  <1>4. CmdInv' /\ ManifestWhole'
    BY <1>1, <1>2, ReadyType DEF CmdInv, ManifestWhole
  <1> QED
    BY <1>2, <1>3, <1>4 DEF Inv

(***************************************************************************)
(* The steps of Next.                                                      *)
(***************************************************************************)

LEMMA AcquireKept ==
    ASSUME Inv, NEW c \in Caller,
           Acquire(c) \/ AcquireStep(c)
    PROVE  Inv'
  <1>1. UNCHANGED storeVars /\ LockStep
    BY DEF Acquire, AcquireStep, LockStep
  <1>2. \A d \in Caller : at'[d] # at[d] => d = c
    BY DEF Acquire, AcquireStep, Enter, Lock, GiveUp, Leave, Out, Inv, LockInv, LockTypeOK
  <1>3. at'[c] # "in" => cmd[c] = Ready
    <2>1. at[c] # "in"
      BY DEF Acquire, AcquireStep, Enter, Lock, GiveUp, Leave
    <2> QED
      BY <2>1 DEF Inv, CmdInv
  <1>4. StoreTypeOK' /\ ManifestWhole'
    BY <1>1 DEF Inv, StoreTypeOK, ManifestWhole, storeVars
  <1>5. cmd[c].step \in {"get", "unpack"} => Recorded(c)'
    BY <1>1 DEF Inv, CmdInv, Recorded, storeVars
  <1>6. cmd[c].step = "stage" => Staged(c)'
    BY <1>1 DEF Inv, CmdInv, Staged, storeVars
  <1> QED
    BY <1>1, <1>2, <1>3, <1>4, <1>5, <1>6, QuietKept DEF storeVars

LEMMA FinishKept ==
    ASSUME Inv, NEW c \in Caller, Finish(c)
    PROVE  Inv'
  <1>1. cmd' = [cmd EXCEPT ![c] = Ready] /\ UNCHANGED <<disk, tmp, manifest, lostPower>>
    BY DEF Finish
  <1>2. Ready \in Command
    BY ReadyType DEF Ready, Command
  <1>3. ManifestWhole' /\ manifest' \in [Release -> Manifest \cup {None, Torn}]
    BY <1>1, ManifestSame
  <1>4. StoreTypeOK' /\ cmd'[c] = Ready /\ \A d \in Caller : cmd'[d] # cmd[d] => d = c
    BY <1>1, <1>2, <1>3, StepType, ReadyType
  <1>5. LockStep /\ \A d \in Caller : at'[d] # at[d] => d = c
    BY DEF Finish, Unlock, LockStep, Inv, LockInv, LockTypeOK
  <1> QED
    BY <1>1, <1>3, <1>4, <1>5, QuietKept, ReadyType

LEMMA SyncKept ==
    ASSUME Inv, NEW c \in Caller, Sync(c)
    PROVE  Inv'
  <1>1. UNCHANGED lockVars
    BY DEF Sync
  <1>2. ASSUME NEW f \in File, Get(c, f) PROVE Inv'
    <2>1. Between(c, "get") /\ \E x \in Content : Store(c, f, x)
      BY <1>2 DEF Get, Served
    <2> QED
      BY <1>1, <2>1, StoreKept
  <1>3. ASSUME NEW f \in File, Unpack(c, f) PROVE Inv'
    BY <1>1, <1>3, UnpackKept
  <1>4. CASE Rename(c)
    BY <1>1, <1>4, RenameKept
  <1>5. CASE \/ StartSync(c) \/ Downloaded(c) \/ PublishManifest(c)
             \/ \E f \in File : Skip(c, f)
             \/ \E a \in Arch : GetArchive(c, a)
    BY <1>1, <1>5, SyncQuiet
  <1> QED
    BY <1>2, <1>3, <1>4, <1>5 DEF Sync

\* A command that hangs is at work on nothing the store knows of.
LEMMA HangKept ==
    ASSUME Inv, NEW c \in Caller, Hang(c)
    PROVE  Inv'
  <1> DEFINE r == [Ready EXCEPT !.step = "hung"]
  <1>1. /\ at[c] = "in" /\ cmd' = [cmd EXCEPT ![c] = r]
        /\ UNCHANGED <<lockVars, disk, tmp, manifest, lostPower>>
    BY DEF Hang, Doing
  <1>2. r \in Command /\ r.step = "hung"
    BY ReadyType DEF Ready, Command
  <1> HIDE DEF r
  <1> QED
    BY <1>1, <1>2, ManifestSame, WorkKept

LEMMA NextKept == Inv /\ [Next]_vars => Inv'
  <1> SUFFICES ASSUME Inv, [Next]_vars PROVE Inv'
    OBVIOUS
  <1>1. ASSUME NEW c \in Caller, Acquire(c) \/ Step(c) \/ Hang(c)
        PROVE  Inv'
    <2>1. CASE Acquire(c) \/ AcquireStep(c)
      BY <2>1, AcquireKept
    <2>2. CASE Finish(c)
      BY <2>2, FinishKept
    <2>3. CASE Sync(c)
      BY <2>3, SyncKept
    <2>4. CASE Staging(c)
      BY <2>4, StagingKept DEF Staging
    <2>5. CASE Fail(c) /\ UNCHANGED lockVars
      BY <2>5, FailKept
    <2>6. CASE Hang(c)
      BY <2>6, HangKept
    <2> QED
      BY <1>1, <2>1, <2>2, <2>3, <2>4, <2>5, <2>6 DEF Step, Work
  <1>2. ASSUME NEW p \in Process, Kill(p) PROVE Inv'
    BY <1>2, KillKept
  <1>3. CASE PowerLoss
    BY <1>3, PowerLossKept
  <1>4. CASE UNCHANGED vars
    <2>1. UNCHANGED <<lockVars, disk, tmp, manifest, cmd, lostPower>>
      BY <1>4 DEF vars, storeVars
    <2>2. LockInv'
      BY <2>1, LockKept DEF Inv, LockStep
    <2>3. StoreTypeOK' /\ ManifestWhole'
      BY <2>1 DEF Inv, StoreTypeOK, ManifestWhole
    <2>4. CmdInv'
      BY <2>1 DEF Inv, CmdInv, Recorded, Staged, lockVars
    <2> QED
      BY <2>2, <2>3, <2>4 DEF Inv
  <1> QED
    BY <1>1, <1>2, <1>3, <1>4 DEF Next

LEMMA Invariance == Spec => []Inv
  BY Initially, NextKept, PTL DEF Spec

(***************************************************************************)
(* Theorems.                                                               *)
(***************************************************************************)

\* Lock, commands and store keep their types (TypeOK).
THEOREM TypeCorrect == Spec => []TypeOK
  <1>1. Inv => TypeOK
    BY DEF Inv, LockInv, TypeOK
  <1> QED
    BY <1>1, Invariance, PTL

\* Of all the callers of Acquire, in any number of processes and under any
\* names of the file, at most one has the lock (MutualExclusion).
THEOREM LockExcludes == Spec => []MutualExclusion
  <1>1. Inv => MutualExclusion
    BY Alone DEF Inv, MutualExclusion
  <1> QED
    BY <1>1, Invariance, PTL

\* No error path and no death leaves a name in the table of a process that
\* nobody will take out (NoStaleEntry).
THEOREM TablesClean == Spec => []NoStaleEntry
  <1>1. Inv => NoStaleEntry
    BY DEF Inv, LockInv
  <1> QED
    BY <1>1, Invariance, PTL

\* A manifest on disk lists only files that are there as it says, as long as
\* the controller keeps its power (ManifestWhole).
THEOREM ManifestsWhole == Spec => []ManifestWhole
  <1>1. Inv => ManifestWhole
    BY DEF Inv
  <1> QED
    BY <1>1, Invariance, PTL

\* What a preflight has found in the store stays there until the staging is
\* over (StagingCanFinish).
THEOREM StagingNotBroken == Spec => []StagingCanFinish
  <1>1. Inv => StagingCanFinish
    BY DEF Inv, CmdInv, Staged, StagingCanFinish, Doing
  <1> QED
    BY <1>1, Invariance, PTL

\* Every file that is uploaded is the one its manifest names, power loss or not
\* (UploadsIntact).
THEOREM UploadsVerified == Spec => UploadsIntact
  <1> DEFINE OnUpload == \A c \in Caller : Upload(c) =>
                disk[cmd[c].release][cmd[c].file] = cmd[c].files[cmd[c].file]
  <1>1. Inv => OnUpload
    BY DEF Inv, CmdInv, Staged, Upload, Doing
  <1>2. Inv /\ [Next]_vars => [OnUpload]_vars
    BY <1>1
  <1> QED
    BY <1>2, Invariance, PTL DEF Spec, UploadsIntact

LEMMA InitPublished == ControllerInit => Published!Init
  BY DEF ControllerInit, StoreInit, Published!Init

\* A rename stores a file whose place was free, a manifest is published when
\* its files are stored, and everything else is invisible to a reader.
LEMMA StepPublished ==
    ASSUME Inv, [Next]_vars
    PROVE  [Published!Next]_(Published!vars)
  <1>1. ASSUME NEW c \in Caller, Rename(c) PROVE Published!Next
    <2> DEFINE v == cmd[c].release
               f == cmd[c].file
    <2>1. cmd[c].step \in {"get", "unpack"} /\ v \in Release /\ f \in File /\ f # None
          /\ tmp[v][f] \in Content
      <3>1. cmd[c].step \in {"get", "unpack"} /\ f # None /\ tmp[v][f] # None
        BY <1>1 DEF Rename, Doing
      <3> QED
        BY <3>1, CmdType DEF Inv, StoreTypeOK
    <2>2. disk[v][f] = None
      BY <2>1 DEF Inv, CmdInv, Recorded
    <2>3. disk' = [disk EXCEPT ![v][f] = tmp[v][f]] /\ manifest' = manifest
      BY <1>1 DEF Rename
    <2>4. Published!Store(v, f, tmp[v][f])
      BY <2>2, <2>3 DEF Published!Store
    <2> QED
      BY <2>1, <2>4 DEF Published!Next
  <1>2. ASSUME NEW c \in Caller, PublishManifest(c) PROVE Published!Next
    <2> DEFINE v == cmd[c].release
               F == DOMAIN cmd[c].files
    <2>1. /\ cmd[c].step = "unpack" /\ cmd[c].file = None /\ disk' = disk
          /\ manifest' = [manifest EXCEPT ![v] = cmd[c].files]
      BY <1>2 DEF PublishManifest, AllStored, Between, Doing
    <2>2. v \in Release /\ F \in SUBSET File
          /\ \A f \in F : cmd[c].files[f] \in Content /\ f # None
      BY <2>1, CmdType, ManifestFiles
    <2>3. \A f \in F : disk[v][f] = cmd[c].files[f]
      BY <2>1, <2>2 DEF Inv, CmdInv, Recorded
    <2>4. cmd[c].files = [f \in F |-> disk[v][f]]
      <3>1. cmd[c].files = [f \in F |-> cmd[c].files[f]]
        BY CmdType DEF Manifest
      <3> QED
        BY <2>3, <3>1
    <2>5. Published!Publish(v, F)
      BY <2>1, <2>2, <2>3, <2>4 DEF Published!Publish
    <2> QED
      BY <2>2, <2>5 DEF Published!Next
  <1>3. ASSUME PowerLoss PROVE Published!Next
    <2>1. \A v \in Release : manifest[v] \in {None, Torn} => manifest'[v] = manifest[v]
      BY <1>3, StoreAssumption DEF PowerLoss
    <2> QED
      BY <1>3, <2>1 DEF PowerLoss, Published!Next, Published!LosePower, Published!Manifest,
         Manifest
  <1>4. ASSUME NEW c \in Caller, Step(c), ~Rename(c), ~PublishManifest(c)
        PROVE  UNCHANGED <<disk, manifest>>
    BY <1>4 DEF Step, AcquireStep, Finish, Work, Sync, Staging, storeVars, StartSync, Get,
       Skip, Downloaded, GetArchive, Unpack, Store, StartStaging, Verify, Upload, Fail
  <1>5. ASSUME NEW c \in Caller, Acquire(c) \/ Hang(c)
        PROVE  UNCHANGED <<disk, manifest>>
    BY <1>5 DEF Hang, Acquire, storeVars
  <1>6. ASSUME NEW p \in Process, Kill(p) PROVE UNCHANGED <<disk, manifest>>
    BY <1>6 DEF Kill
  <1>7. CASE UNCHANGED vars
    BY <1>7 DEF vars, storeVars, Published!vars
  <1> QED
    BY <1>1, <1>2, <1>3, <1>4, <1>5, <1>6, <1>7 DEF Next, Published!vars

\* To whoever reads the store at any time, with the lock or without, it is the
\* abstract one of PublishedReleases (ImplementsPublished).
THEOREM StoreRefinement == Spec => ImplementsPublished
  <1>1. Inv /\ [Next]_vars => [Published!Next]_(Published!vars)
    BY StepPublished
  <1> QED
    BY <1>1, InitPublished, Invariance, PTL
       DEF Spec, ImplementsPublished, Published!Spec
=============================================================================
