------------------------------ MODULE Lockfile ------------------------------
(***************************************************************************)
(* The controller lock (internal/lockfile/lockfile.go): a table of the     *)
(* names held in the process and, below it, an exclusive flock of the      *)
(* file.  The kernel's flock belongs to one open file, also within a       *)
(* process, and ends with the process (external).  Names are absolute      *)
(* paths; two of them may be one file (filepath.Abs resolves no links).    *)
(* The lock file is on a local file system and nobody deletes it.          *)
(***************************************************************************)
EXTENDS Naturals, FiniteSets

CONSTANTS
    Caller,         \* goroutines that call Acquire
    Process,        \* processes on the controller
    ProcessOf,      \* the process of a caller
    LockName,       \* names of lock files
    LockFile,       \* lock files
    FileOf,         \* the file a name leads to
    Nobody

ASSUME LockAssumption ==
    /\ ProcessOf \in [Caller -> Process]
    /\ FileOf \in [LockName -> LockFile]
    /\ Nobody \notin Caller \cup LockName

VARIABLES
    held,       \* the tables: <<process, name>>
    flock,      \* who has the kernel's lock of a file
    at,         \* where each caller is
    name        \* the name it was called with

lockVars == <<held, flock, at, name>>

LockTypeOK ==
    /\ held \subseteq Process \X LockName
    /\ flock \in [LockFile -> Caller \cup {Nobody}]
    /\ at \in [Caller -> {"out", "open", "in", "leaving"}]
    /\ name \in [Caller -> LockName \cup {Nobody}]
    /\ \A c \in Caller : name[c] = Nobody <=> at[c] = "out"

Entry(c) == <<ProcessOf[c], name[c]>>

Free(c) == flock' = [f \in LockFile |-> IF flock[f] = c THEN Nobody ELSE flock[f]]

Out(c) == at' = [at EXCEPT ![c] = "out"] /\ name' = [name EXCEPT ![c] = Nobody]

\* LoadOrStore: a name that is in the table already is refused.
Enter(c, n) ==
    /\ at[c] = "out"
    /\ <<ProcessOf[c], n>> \notin held
    /\ held' = held \cup {<<ProcessOf[c], n>>}
    /\ at' = [at EXCEPT ![c] = "open"]
    /\ name' = [name EXCEPT ![c] = n]
    /\ UNCHANGED flock

\* Mutant: the process table is taken for the lock.
TableOnly(c) == TRUE

Unlocked(c) == flock[FileOf[name[c]]] = Nobody

Lock(c) ==
    /\ at[c] = "open"
    /\ Unlocked(c)
    /\ flock' = [flock EXCEPT ![FileOf[name[c]]] = c]
    /\ at' = [at EXCEPT ![c] = "in"]
    /\ UNCHANGED <<held, name>>

\* Mutant: an error path that forgets the table.
KeepEntry(c) == UNCHANGED held

DropEntry(c) == held' = held \ {Entry(c)}

\* The open, the chmod or the flock fails, because the lock is taken or for
\* any other reason: the entry goes and the file is closed.
GiveUp(c) ==
    /\ at[c] = "open"
    /\ DropEntry(c)
    /\ Out(c)
    /\ UNCHANGED flock

\* The unlock function: first the flock, then the entry.  Called again it does
\* nothing.
Unlock(c) ==
    /\ at[c] = "in"
    /\ Free(c)
    /\ at' = [at EXCEPT ![c] = "leaving"]
    /\ UNCHANGED <<held, name>>

Leave(c) ==
    /\ at[c] = "leaving"
    /\ held' = held \ {Entry(c)}
    /\ Out(c)
    /\ UNCHANGED flock

\* The process P dies, or all of them: the tables are gone, the kernel
\* unlocks.
Die(P) ==
    /\ held' = {h \in held : h[1] \notin P}
    /\ flock' = [f \in LockFile |->
                    IF flock[f] # Nobody /\ ProcessOf[flock[f]] \in P
                    THEN Nobody ELSE flock[f]]
    /\ at' = [c \in Caller |-> IF ProcessOf[c] \in P THEN "out" ELSE at[c]]
    /\ name' = [c \in Caller |-> IF ProcessOf[c] \in P THEN Nobody ELSE name[c]]

LockInit ==
    /\ held = {}
    /\ flock = [f \in LockFile |-> Nobody]
    /\ at = [c \in Caller |-> "out"]
    /\ name = [c \in Caller |-> Nobody]

(***************************************************************************)
(* Properties.                                                             *)
(***************************************************************************)

\* Acquire never lets two callers have one lock file at a time, in one process
\* or in several, under one name or two.
MutualExclusion ==
    \A c, d \in Caller :
        /\ at[c] = "in" /\ at[d] = "in" /\ FileOf[name[c]] = FileOf[name[d]]
        => c = d

\* What is in a table belongs to a caller that is on its way in or out:
\* neither an error nor a death leaves an entry that keeps others out for good.
NoStaleEntry ==
    \A h \in held : \E c \in Caller : at[c] # "out" /\ Entry(c) = h
=============================================================================
